---- MODULE Spec2Model ----
(***************************************************************************)
(* Reward and critic models with a scalar value head                       *)
(* (src/openrlhf/models/model.py).                                         *)
(*                                                                         *)
(* Tensors are functions with 0-based index sets, as in the source:       *)
(* a batch of per-token values is [0..B-1 -> [0..L-1 -> number]].          *)
(* Numbers are exact rationals <<n, d>> in lowest terms with d > 0, so     *)
(* that (x - mean) / std is computed and not assumed.                      *)
(***************************************************************************)
EXTENDS Integers, Sequences, FiniteSets

\* ------------------------------------------------------------- bounds
MaxBatch == 2
MaxSeqLen == 3
MaxActions == 3
MaxProcs == 3
MaxHidden == 2

\* ------------------------------------------------------------- numbers
Abs(x) == IF x < 0 THEN -x ELSE x

Sign(x) == IF x < 0 THEN -1 ELSE IF x = 0 THEN 0 ELSE 1

RECURSIVE GCD(_, _)
GCD(a, b) == IF b = 0 THEN a ELSE GCD(b, a % b)

\* n/d in lowest terms with a positive denominator; a zero denominator gives
\* the IEEE results <<1,0>> (inf), <<-1,0>> (-inf), <<0,0>> (nan).
Reduce(n, d) ==
    IF d = 0 THEN <<Sign(n), 0>>
    ELSE LET g == GCD(Abs(n), Abs(d))
         IN  <<Sign(d) * (n \div g), Abs(d) \div g>>

ToRat(i) == <<i, 1>>

\* tensor - tensor element: x - y
RatSub(x, y) == Reduce(x[1] * y[2] - y[1] * x[2], x[2] * y[2])

\* tensor / tensor element: x / y
RatDiv(x, y) == Reduce(x[1] * y[2], x[2] * y[1])

\* (x - mean) / std, model.py:189 and model.py:242
Normalize(x, m, s) == RatDiv(RatSub(x, m), s)

\* ------------------------------------------------------------- tensors
\* attention_mask=None / action_mask=None
None == <<>>

\* t.size(0), t.size(1)
Size0(t) == Cardinality(DOMAIN t)
Size1(t) == Cardinality(DOMAIN t[0])

\* row.flip(): fliplr on one row
FlipRow(row) ==
    LET n == Cardinality(DOMAIN row)
    IN  [i \in 0..(n - 1) |-> row[n - 1 - i]]

\* torch.argmax on one row: the index of the first maximal value
ArgMaxLast(row) ==
    CHOOSE i \in DOMAIN row :
        /\ \A j \in DOMAIN row : row[j] <= row[i]
        /\ \A j \in DOMAIN row : row[j] = row[i] => j <= i
ArgMax(row) ==
    CHOOSE i \in DOMAIN row :
        /\ \A j \in DOMAIN row : row[j] <= row[i]
        /\ \A j \in DOMAIN row : row[j] = row[i] => i <= j

\* attention_mask.size(1) - 1 - attention_mask.long().fliplr().argmax(dim=1)
EosIndices(attention_mask) ==
    [b \in DOMAIN attention_mask |->
        Size1(attention_mask) - 1 - ArgMax(FlipRow(attention_mask[b]))]

\* Python's t[:, start:] on a row of n columns, start given as written
\* (negative counts from the end, and -0 is 0)
SliceStart(n, start) ==
    IF start < 0 THEN (IF n + start < 0 THEN 0 ELSE n + start)
    ELSE (IF start > n THEN n ELSE start)

\* t[:, :-1]
DropLast(t) ==
    [b \in DOMAIN t |-> [i \in 0..(Size1(t) - 2) |-> t[b][i]]]

\* t[:, start:] with the columns renumbered from 0
SliceFrom(t, start) ==
    LET n == Size1(t)
        s == SliceStart(n, start)
    IN  [b \in DOMAIN t |-> [i \in 0..(n - s - 1) |-> t[b][s + i]]]

\* ------------------------------------------------------------- state
VARIABLES
    \* one model object (LLMForSequenceRegression)
    phase,             \* "unbuilt", "ready" (constructed) or "failed" (__init__ raised)
    model_type,        \* "reward" or "critic": which class _get_*_model built
    config,            \* the checkpoint configuration: attribute name -> value
    normalize_reward,  \* self.normalize_reward
    mean,              \* self.mean[0]
    std,               \* self.std[0]
    training,          \* self.training (nn.Module)
    call,              \* the arguments of the last forward call
    result,            \* what the last forward call returned or raised
    \* one call of get_llm_for_sequence_regression
    pc,                \* the statement the call is at
    args,              \* the arguments of the call
    env,               \* what the checkpoint and the registry hold
    hf_config,         \* the local config (AutoConfig.from_pretrained)
    cls_class,         \* the class resolved for the model
    dschf,             \* the local dschf
    model,             \* the local model
    raised,            \* the exception that left the function, and where it arose
    printed,           \* whether the fallback diagnostic was printed
    \* the value-head initialization across the processes of a training run
    world,             \* what every process was called with
    ppc,               \* rank -> the statement the process is at
    weight,            \* rank -> the elements of value_head.weight the process stores
    gathered,          \* rank -> the full weight while the process is inside the gather
    contrib,           \* rank -> the partition the process gave to the all-gather
    bcast,             \* the full weight the modifier rank broadcast on exit
    draws,             \* the normal_ calls made so far: rank, arguments and outcome
    inits              \* rank -> how many times the stored elements were initialized

objVars == <<phase, model_type, config, normalize_reward, mean, std, training, call, result>>

buildVars == <<pc, args, env, hf_config, cls_class, dschf, model, raised, printed>>

distVars == <<world, ppc, weight, gathered, contrib, bcast, draws, inits>>

vars == <<objVars, buildVars, distVars>>

\* the values of the variables of the parts a specification leaves out
IdleObject ==
    /\ phase = "idle"
    /\ model_type = "none"
    /\ config = <<>>
    /\ normalize_reward = FALSE
    /\ mean = ToRat(0)
    /\ std = ToRat(1)
    /\ training = TRUE
    /\ call = [kind |-> "none"]
    /\ result = [kind |-> "none"]

IdleBuild ==
    /\ pc = "idle"
    /\ args = <<>>
    /\ env = <<>>
    /\ hf_config = <<>>
    /\ cls_class = <<>>
    /\ dschf = "None"
    /\ model = <<>>
    /\ raised = <<>>
    /\ printed = FALSE

IdleDist ==
    /\ world = <<>>
    /\ ppc = <<>>
    /\ weight = <<>>
    /\ gathered = <<>>
    /\ contrib = <<>>
    /\ bcast = <<>>
    /\ draws = <<>>
    /\ inits = <<>>

\* ------------------------------------------------------------- inputs
MeanSet == {0, 3}
StdSet == {1, 2}

\* config.json contents: any subset of the optional attributes mean and std
Configs ==
    UNION { [D -> MeanSet \cup StdSet] : D \in SUBSET {"mean", "std"} }

ValidConfigs ==
    { c \in Configs :
        /\ ("mean" \in DOMAIN c => c["mean"] \in MeanSet)
        /\ ("std" \in DOMAIN c => c["std"] \in StdSet) }

\* Per-token outputs of value_head(last_hidden_states).squeeze(-1) for a batch of
\* B rows and L positions. The backbone is external; its outputs are drawn from
\* a family in which the positions of a row carry pairwise different values.
ValueBatches(B, L) ==
    { [b \in 0..(B - 1) |-> [t \in 0..(L - 1) |-> ToRat(s * (t + 1) + 4 * b)]] :
        s \in {1, -2} }

Masks(B, L) == [0..(B - 1) -> [0..(L - 1) -> {0, 1}]]

AllOnes(B, A) == [b \in 0..(B - 1) |-> [t \in 0..(A - 1) |-> 1]]

NoCall == [kind |-> "none"]

\* ------------------------------------------------------------- the model object
Self == [training |-> training, normalize_reward |-> normalize_reward,
         mean |-> mean, std |-> std]

Returned(v, return_output) ==
    [kind |-> "ok", value |-> v, outputs |-> return_output]

Raised(e) == [kind |-> e]

\* LLMForSequenceRegression.__init__ of both classes: the buffers start at 0 and 1;
\* when the configuration has a mean, mean and std are both read from it.
InitStats(cfg) ==
    IF "mean" \in DOMAIN cfg
    THEN IF "std" \in DOMAIN cfg
         THEN [ok |-> TRUE, mean |-> ToRat(cfg["mean"]), std |-> ToRat(cfg["std"])]
         ELSE [ok |-> FALSE, mean |-> ToRat(cfg["mean"]), std |-> ToRat(1)]
    ELSE [ok |-> TRUE, mean |-> ToRat(0), std |-> ToRat(1)]

\* RewardForward with the normalization also applied in training mode
RewardForwardNormAlways(self, values, attention_mask, return_output) ==
    LET norm(r) == IF self.normalize_reward
                   THEN [b \in DOMAIN r |-> Normalize(r[b], self.mean, self.std)]
                   ELSE r
    IN  IF self.training
        THEN Returned(norm([b \in DOMAIN values |-> values[b][Size1(values) - 1]]),
                      return_output)
        ELSE IF attention_mask = None
        THEN Raised("AttributeError")
        ELSE LET eos_indices == EosIndices(attention_mask)
             IN  Returned(norm([b \in DOMAIN values |-> values[b][eos_indices[b]]]),
                          return_output)

\* reward model forward, model.py:167-193
RewardForward(self, values, attention_mask, return_output) ==
    IF self.training
    THEN Returned([b \in DOMAIN values |-> values[b][Size1(values) - 1]], return_output)
    ELSE IF attention_mask = None
    THEN Raised("AttributeError")
    ELSE LET eos_indices == EosIndices(attention_mask)
             reward == [b \in DOMAIN values |-> values[b][eos_indices[b]]]
         IN  IF self.normalize_reward
             THEN Returned([b \in DOMAIN values |->
                               Normalize(reward[b], self.mean, self.std)], return_output)
             ELSE Returned(reward, return_output)

\* CriticForward with the normalization gated on evaluation mode, as in the
\* reward model
CriticForwardEvalOnly(self, values, action_mask, return_output) ==
    IF action_mask = None
    THEN Raised("AttributeError")
    ELSE LET truncated == DropLast(values)
             num_actions == Size1(action_mask)
             normalized ==
                 IF self.normalize_reward /\ ~self.training
                 THEN [b \in DOMAIN truncated |->
                          [i \in DOMAIN truncated[b] |->
                              Normalize(truncated[b][i], self.mean, self.std)]]
                 ELSE truncated
         IN  Returned(SliceFrom(normalized, -num_actions), return_output)

\* critic model forward, model.py:225-247
CriticForward(self, values, action_mask, return_output) ==
    IF action_mask = None
    THEN Raised("AttributeError")
    ELSE LET truncated == DropLast(values)
             num_actions == Size1(action_mask)
             normalized ==
                 IF self.normalize_reward
                 THEN [b \in DOMAIN truncated |->
                          [i \in DOMAIN truncated[b] |->
                              Normalize(truncated[b][i], self.mean, self.std)]]
                 ELSE truncated
         IN  Returned(SliceFrom(normalized, -num_actions), return_output)

\* ------------------------------------------------------------- actions
\* cls_class(config): config.normalize_reward was set from the argument (model.py:53)
Construct ==
    /\ phase = "unbuilt"
    /\ \E cfg \in ValidConfigs, flag \in BOOLEAN :
          LET st == InitStats(cfg)
          IN  /\ config' = cfg
              /\ normalize_reward' = flag
              /\ mean' = st.mean
              /\ std' = st.std
              /\ phase' = IF st.ok THEN "ready" ELSE "failed"
    /\ training' = TRUE
    /\ UNCHANGED <<model_type, call, result, buildVars, distVars>>

\* model.train()
Train ==
    /\ phase = "ready"
    /\ ~training
    /\ training' = TRUE
    /\ UNCHANGED <<phase, model_type, config, normalize_reward, mean, std, call, result, buildVars, distVars>>

\* model.eval()
Eval ==
    /\ phase = "ready"
    /\ training
    /\ training' = FALSE
    /\ UNCHANGED <<phase, model_type, config, normalize_reward, mean, std, call, result, buildVars, distVars>>

ForwardReward ==
    /\ phase = "ready"
    /\ model_type = "reward"
    /\ call = NoCall
    /\ \E B \in 1..MaxBatch, L \in 1..MaxSeqLen, ro \in BOOLEAN :
       \E values \in ValueBatches(B, L), attention_mask \in Masks(B, L) \cup {None} :
          /\ call' = [values |-> values, attention_mask |-> attention_mask,
                      action_mask |-> None, training |-> training,
                      return_output |-> ro]
          /\ result' = RewardForward(Self, values, attention_mask, ro)
    /\ UNCHANGED <<phase, model_type, config, normalize_reward, mean, std, training, buildVars, distVars>>

ForwardCritic ==
    /\ phase = "ready"
    /\ model_type = "critic"
    /\ call = NoCall
    /\ \E B \in 1..MaxBatch, L \in 1..MaxSeqLen, A \in 0..MaxActions, ro \in BOOLEAN :
       \E values \in ValueBatches(B, L),
          attention_mask \in {AllOnes(B, L), None},
          action_mask \in {AllOnes(B, A), None} :
          /\ call' = [values |-> values, attention_mask |-> attention_mask,
                      action_mask |-> action_mask, training |-> training,
                      return_output |-> ro]
          /\ result' = CriticForward(Self, values, action_mask, ro)
    /\ UNCHANGED <<phase, model_type, config, normalize_reward, mean, std, training, buildVars, distVars>>

\* the caller takes the result; the model object is ready for the next call
Consume ==
    /\ call # NoCall
    /\ call' = NoCall
    /\ result' = NoCall
    /\ UNCHANGED <<phase, model_type, config, normalize_reward, mean, std, training, buildVars, distVars>>

InitObject(mt) ==
    /\ phase = "unbuilt"
    /\ model_type = mt
    /\ config = <<>>
    /\ normalize_reward = FALSE
    /\ mean = ToRat(0)
    /\ std = ToRat(1)
    /\ training = TRUE
    /\ call = NoCall
    /\ result = NoCall
    /\ IdleBuild
    /\ IdleDist

InitModel == InitObject("reward") \/ InitObject("critic")

NextModel ==
    \/ Construct
    \/ Train
    \/ Eval
    \/ ForwardReward
    \/ ForwardCritic
    \/ Consume

\* One model object of either class: constructed, switched between training and
\* evaluation mode, and called.
SpecModel == InitModel /\ [][NextModel]_vars

\* ------------------------------------------------------------- properties of the forward passes
HasOne(row) == \E i \in DOMAIN row : row[i] = 1

\* the highest index of the row whose mask value is 1
HighestOne(row) ==
    CHOOSE i \in DOMAIN row :
        /\ row[i] = 1
        /\ \A j \in DOMAIN row : j > i => row[j] # 1

\* r = (x - m) / s, stated without the division: r * s + m = x, s # 0
IsStandardized(r, x, m, s) ==
    /\ s[1] # 0
    /\ r[2] # 0
    /\ r[1] * s[1] * m[2] * x[2] + m[1] * r[2] * s[2] * x[2] = x[1] * r[2] * s[2] * m[2]

RewardCall == model_type = "reward" /\ call # NoCall

CriticCall == model_type = "critic" /\ call # NoCall

\* the value the stored statistics give the raw value x when the flag is set
Expected(r, x) ==
    IF normalize_reward THEN IsStandardized(r, x, mean, std) ELSE r = x

\* C1: reward model, evaluation mode: for every row of the attention mask that
\* has a 1, the returned reward is the value-head output at the highest index
\* of the row whose mask value is 1 (standardized when normalize_reward is set),
\* whatever the number and place of the 0 entries.
C1_RewardAtLastOne ==
    (RewardCall /\ ~call.training /\ call.attention_mask # None) =>
        /\ result.kind = "ok"
        /\ DOMAIN result.value = DOMAIN call.values
        /\ \A b \in DOMAIN call.attention_mask :
              HasOne(call.attention_mask[b]) =>
                  Expected(result.value[b],
                           call.values[b][HighestOne(call.attention_mask[b])])

\* an evaluation-mode call on two rows with different numbers of trailing zeros
C1_Witness ==
    /\ RewardCall /\ ~call.training /\ call.attention_mask # None
    /\ result.kind = "ok"
    /\ Size0(call.values) = 2
    /\ Size1(call.values) = 3
    /\ HasOne(call.attention_mask[0]) /\ HasOne(call.attention_mask[1])
    /\ HighestOne(call.attention_mask[0]) = 0
    /\ HighestOne(call.attention_mask[1]) = 1

\* C3: reward model: in evaluation mode with normalize_reward set the output is
\* (raw reward - mean) / std with the stored statistics, which is the raw reward
\* when mean = 0 and std = 1; in training mode the output is the raw reward,
\* whatever the flag and the statistics.
C3_RewardNormalization ==
    (RewardCall /\ result.kind = "ok") =>
        \A b \in DOMAIN call.values :
            IF call.training
            THEN result.value[b] = call.values[b][Size1(call.values) - 1]
            ELSE LET raw == call.values[b][EosIndices(call.attention_mask)[b]]
                 IN  normalize_reward =>
                        /\ IsStandardized(result.value[b], raw, mean, std)
                        /\ (mean = ToRat(0) /\ std = ToRat(1)) => result.value[b] = raw

\* an evaluation-mode call with the flag set and statistics other than (0, 1)
C3_Witness ==
    /\ RewardCall /\ result.kind = "ok"
    /\ ~call.training
    /\ normalize_reward
    /\ mean = ToRat(3) /\ std = ToRat(2)
    /\ \E b \in DOMAIN call.values :
          result.value[b] # call.values[b][EosIndices(call.attention_mask)[b]]

\* C10 as claimed: a reward-model call without an attention mask completes and
\* returns one scalar per sequence, in training and in evaluation mode.
C10_MaskOptional ==
    (RewardCall /\ call.attention_mask = None) =>
        /\ result.kind = "ok"
        /\ DOMAIN result.value = DOMAIN call.values

\* C2 as claimed: for every sequence length and every action_mask width the
\* critic output has num_actions columns, which are the last num_actions entries
\* of the per-token values truncated to the first L-1 positions.
C2_CriticShape ==
    (CriticCall /\ call.action_mask # None) =>
        LET L == Size1(call.values)
            num_actions == Size1(call.action_mask)
        IN  /\ result.kind = "ok"
            /\ DOMAIN result.value = DOMAIN call.values
            /\ \A b \in DOMAIN call.values :
                  /\ DOMAIN result.value[b] = 0..(num_actions - 1)
                  /\ \A j \in 0..(num_actions - 1) :
                        Expected(result.value[b][j],
                                 call.values[b][(L - 1) - num_actions + j])

\* C4: critic model: with normalize_reward set every returned value is
\* (v - mean) / std of a per-token value, in training and in evaluation mode,
\* and the mode does not change the output for the same inputs.
C4_CriticNormalization ==
    (CriticCall /\ result.kind = "ok") =>
        LET L == Size1(call.values)
            width == Size1(result.value)
            other == [Self EXCEPT !.training = ~call.training]
        IN  /\ \A b \in DOMAIN call.values :
                  \A j \in 0..(width - 1) :
                      Expected(result.value[b][j], call.values[b][(L - 1) - width + j])
            /\ result = CriticForward(other, call.values, call.action_mask,
                                      call.return_output)

\* a training-mode critic call with the flag set and statistics other than (0, 1)
C4_Witness ==
    /\ CriticCall /\ result.kind = "ok"
    /\ call.training
    /\ normalize_reward
    /\ mean = ToRat(3) /\ std = ToRat(2)
    /\ Size1(call.values) = 3
    /\ Size1(call.action_mask) = 2
    /\ Size1(result.value) = 2
    /\ result.value[0][0] # call.values[0][0]

\* C6 as claimed: after construction mean is the configuration's mean or 0 and
\* std is the configuration's std or 1, each independently of the other.
C6_StatsIndependent ==
    phase = "ready" =>
        /\ mean = (IF "mean" \in DOMAIN config THEN ToRat(config["mean"]) ELSE ToRat(0))
        /\ std = (IF "std" \in DOMAIN config THEN ToRat(config["std"]) ELSE ToRat(1))

\* ------------------------------------------------------------- get_llm_for_sequence_regression
\* Class names are sequences of words, so that name.split("For")[0] is computed:
\* <<"Baichuan", "For", "CausalLM">> is the name BaichuanForCausalLM.
QWenLMHeadModel == <<"QWen", "LMHeadModel">>
InternLMForCausalLM == <<"InternLM", "For", "CausalLM">>

\* name.split("For")[0]
SplitFor0(name) ==
    LET at == {i \in 1..Len(name) : name[i] = "For"}
    IN  IF at = {} THEN name
        ELSE SubSeq(name, 1, (CHOOSE i \in at : \A j \in at : i <= j) - 1)

Entry(module_file, name) == [module_file |-> module_file, name |-> name]

\* config.auto_map of the checkpoints tried: a dictionary from an Auto class to
\* "module_file.ClassName", already split at the dot
AutoMaps ==
    { [k \in {"AutoConfig"} |-> Entry("configuration_x", <<"X", "Config">>)],
      [k \in {"AutoModelForCausalLM"} |-> Entry("modeling_qwen", QWenLMHeadModel)],
      [k \in {"AutoModelForCausalLM", "AutoModel"} |->
          IF k = "AutoModel"
          THEN Entry("modeling_internlm", <<"InternLM", "Model">>)
          ELSE Entry("modeling_internlm", InternLMForCausalLM)],
      [k \in {"AutoModelForCausalLM"} |->
          Entry("modeling_baichuan", <<"Baichuan", "For", "CausalLM">>)],
      [k \in {"AutoModelForCausalLM", "AutoModel"} |->
          Entry("modeling_chatglm", <<"ChatGLM", "For", "ConditionalGeneration">>)] }

ModelTypes == {"reward", "critic", "actor"}

\* ds_config: None, or a dictionary with zero_optimization.stage
DsStages == {"None", "2", "3"}

\* the outcome of AutoModel._model_mapping[type(config)] and the class built on it
RegistryOutcomes == {"hit", "KeyError", "TypeError"}

Args ==
    [model_type : ModelTypes, normalize_reward : BOOLEAN,
     use_flash_attention_2 : BOOLEAN, ds_stage : DsStages,
     lora_rank : {0, 8}, init_value_head : BOOLEAN]

Envs ==
    [registry : RegistryOutcomes, has_auto_map : BOOLEAN, auto_map : AutoMaps,
     missing : SUBSET {"pretrained", "base"}, router : BOOLEAN]

NoClass == [via |-> "none", kind |-> "none", base |-> <<>>, pretrained |-> <<>>]

NoModel == [loaded |-> FALSE, router |-> FALSE, peft |-> FALSE, head |-> "untouched"]

NoError == [exc |-> "None", at |-> "none"]

\* the assertion of model.py:48-50
ValidModelTypeAny(mt) == TRUE
ValidModelType(mt) == mt = "critic" \/ mt = "reward"

\* _get_reward_model / _get_critic_model on the resolved classes, model.py:59-62, 87-90
ClsClass(mt, via, base_pretrained_class, base_class) ==
    [via |-> via, kind |-> IF mt = "reward" THEN "reward" ELSE "critic",
     base |-> base_class, pretrained |-> base_pretrained_class]

\* where control goes when the try block of model.py:56-62 raises exc:
\* except Exception (model.py:63) takes it to the dynamic path
OnRegistryErrorPropagate(exc) == [pc |-> "raised", raised |-> [exc |-> exc, at |-> "registry"]]
OnRegistryError(exc) == [pc |-> "dynamic", raised |-> NoError]

\* the class names of the dynamic path, model.py:65-79
DynamicNames(auto_map) ==
    LET causal == auto_map["AutoModelForCausalLM"]
        causal_model_name == causal.name
    IN  IF causal_model_name = QWenLMHeadModel
        THEN [module_file |-> causal.module_file,
              auto_model_name |-> <<"QWen", "Model">>,
              pretrained_model_name |-> <<"QWen", "PreTrainedModel">>]
        ELSE IF causal_model_name = InternLMForCausalLM
        THEN [module_file |-> causal.module_file,
              auto_model_name |-> <<"InternLM", "Model">>,
              pretrained_model_name |-> <<"InternLM", "PreTrainedModel">>]
        ELSE [module_file |-> causal.module_file,
              auto_model_name |->
                  IF "AutoModel" \notin DOMAIN auto_map
                  THEN SplitFor0(causal_model_name) \o <<"Model">>
                  ELSE auto_map["AutoModel"].name,
              pretrained_model_name |->
                  SplitFor0(causal_model_name) \o <<"PreTrainedModel">>]

\* the except block of model.py:63-90: the classes, or the exception it raises
DynamicResolve(e, mt) ==
    IF ~e.has_auto_map
    THEN [ok |-> FALSE, exc |-> "AttributeError"]
    ELSE IF "AutoModelForCausalLM" \notin DOMAIN e.auto_map
    THEN [ok |-> FALSE, exc |-> "KeyError"]
    ELSE LET n == DynamicNames(e.auto_map)
         IN  IF "pretrained" \in e.missing \/ "base" \in e.missing
             THEN [ok |-> FALSE, exc |-> "AttributeError"]
             ELSE [ok |-> TRUE,
                   cls |-> ClsClass(mt, "dynamic", n.pretrained_model_name,
                                    n.auto_model_name)]

\* model.py:94-97
Dschf(ds_stage) == IF ds_stage # "None" /\ ds_stage = "3" THEN "HfDeepSpeedConfig" ELSE "None"

\* which branch of model.py:128-135 runs
InitPath(init_value_head, d) ==
    IF init_value_head
    THEN (IF d # "None" THEN "zero3" ELSE "plain")
    ELSE "skipped"

\* model.py:48-50
CheckModelType ==
    /\ pc = "entry"
    /\ IF ValidModelType(args.model_type)
       THEN pc' = "config" /\ raised' = raised
       ELSE pc' = "raised" /\ raised' = [exc |-> "AssertionError", at |-> "entry"]
    /\ UNCHANGED <<args, env, hf_config, cls_class, dschf, model, printed, objVars, distVars>>

\* model.py:52-54
LoadConfig ==
    /\ pc = "config"
    /\ hf_config' = [loaded |-> TRUE,
                     normalize_reward |-> args.normalize_reward,
                     attn_implementation |->
                         IF args.use_flash_attention_2 THEN "flash_attention_2" ELSE "eager",
                     output_router_logits |-> FALSE]
    /\ pc' = "registry"
    /\ UNCHANGED <<args, env, cls_class, dschf, model, raised, printed, objVars, distVars>>

\* model.py:56-64
RegistryLookup ==
    /\ pc = "registry"
    /\ IF env.registry = "hit"
       THEN /\ cls_class' = ClsClass(args.model_type, "registry",
                                     <<"Llama", "PreTrainedModel">>, <<"Llama", "Model">>)
            /\ pc' = "dschf"
            /\ UNCHANGED <<raised, printed>>
       ELSE /\ pc' = OnRegistryError(env.registry).pc
            /\ raised' = OnRegistryError(env.registry).raised
            /\ printed' = (OnRegistryError(env.registry).pc = "dynamic")
            /\ UNCHANGED cls_class
    /\ UNCHANGED <<args, env, hf_config, dschf, model, objVars, distVars>>

\* model.py:65-90
DynamicPath ==
    /\ pc = "dynamic"
    /\ LET r == DynamicResolve(env, args.model_type)
       IN  IF r.ok
           THEN cls_class' = r.cls /\ pc' = "dschf" /\ raised' = raised
           ELSE /\ cls_class' = cls_class
                /\ pc' = "raised"
                /\ raised' = [exc |-> r.exc, at |-> "dynamic"]
    /\ UNCHANGED <<args, env, hf_config, dschf, model, printed, objVars, distVars>>

\* model.py:94-97
MakeDschf ==
    /\ pc = "dschf"
    /\ dschf' = Dschf(args.ds_stage)
    /\ pc' = "from_pretrained"
    /\ UNCHANGED <<args, env, hf_config, cls_class, model, raised, printed, objVars, distVars>>

\* model.py:99-111
FromPretrained ==
    /\ pc = "from_pretrained"
    /\ model' = [model EXCEPT !.loaded = TRUE, !.router = env.router]
    /\ hf_config' = [hf_config EXCEPT !.output_router_logits = env.router]
    /\ pc' = "lora"
    /\ UNCHANGED <<args, env, cls_class, dschf, raised, printed, objVars, distVars>>

\* model.py:114-123
Lora ==
    /\ pc = "lora"
    /\ model' = [model EXCEPT !.peft = (args.lora_rank > 0)]
    /\ pc' = "init_value_head"
    /\ UNCHANGED <<args, env, hf_config, cls_class, dschf, raised, printed, objVars, distVars>>

\* model.py:128-137, as seen by the calling process: which branch initializes
\* the value head (the branches themselves are the actions of SpecInit)
InitHeadAndReturn ==
    /\ pc = "init_value_head"
    /\ model' = [model EXCEPT !.head = InitPath(args.init_value_head, dschf)]
    /\ pc' = "returned"
    /\ UNCHANGED <<args, env, hf_config, cls_class, dschf, raised, printed, objVars, distVars>>

InitBuild ==
    /\ pc = "entry"
    /\ args \in Args
    /\ env \in Envs
    /\ hf_config = [loaded |-> FALSE, normalize_reward |-> FALSE,
                    attn_implementation |-> "none", output_router_logits |-> FALSE]
    /\ cls_class = NoClass
    /\ dschf = "None"
    /\ model = NoModel
    /\ raised = NoError
    /\ printed = FALSE
    /\ IdleObject
    /\ IdleDist

NextBuild ==
    \/ CheckModelType
    \/ LoadConfig
    \/ RegistryLookup
    \/ DynamicPath
    \/ MakeDschf
    \/ FromPretrained
    \/ Lora
    \/ InitHeadAndReturn

\* One call of get_llm_for_sequence_regression, statement by statement.
SpecBuild == InitBuild /\ [][NextBuild]_vars

\* ------------------------------------------------------------- properties of the construction call
\* C5: with a model_type other than "reward" or "critic" the call ends at its
\* first statement with an AssertionError: no configuration has been read, no
\* class resolved and no weights loaded; and an AssertionError never leaves the
\* call after any of these happened.
C5_InvalidTypeFailsFirst ==
    /\ (args.model_type # "reward" /\ args.model_type # "critic") =>
          /\ pc \in {"entry", "raised"}
          /\ pc = "raised" => raised = [exc |-> "AssertionError", at |-> "entry"]
          /\ ~hf_config.loaded
          /\ cls_class = NoClass
          /\ dschf = "None"
          /\ ~model.loaded
    /\ raised.exc = "AssertionError" =>
          ~hf_config.loaded /\ cls_class = NoClass /\ ~model.loaded

\* a call with model_type "actor" that has failed
C5_Witness ==
    /\ args.model_type = "actor"
    /\ pc = "raised"
    /\ raised.exc = "AssertionError"

AfterResolution == {"dschf", "from_pretrained", "lora", "init_value_head", "returned"}

\* C7: an exception of the registry lookup never leaves the call: the
\* diagnostic is printed and the dynamic path runs; an exception of the dynamic
\* path leaves the call, with no class resolved and no weights loaded, and the
\* call goes no further.
C7_RegistryFallback ==
    /\ raised.at # "registry"
    /\ (env.registry # "hit" /\ (pc = "dynamic" \/ pc \in AfterResolution)) =>
          /\ printed
          /\ pc \in AfterResolution => cls_class.via = "dynamic"
    /\ (env.registry # "hit" /\ pc = "raised" /\ raised.at # "entry") =>
          raised.at = "dynamic" /\ printed
    /\ raised.at = "dynamic" =>
          /\ pc = "raised"
          /\ cls_class = NoClass
          /\ dschf = "None"
          /\ ~model.loaded
    /\ (env.registry # "hit" /\ pc \in AfterResolution) =>
          /\ env.has_auto_map
          /\ "AutoModelForCausalLM" \in DOMAIN env.auto_map
          /\ env.missing = {}

\* the registry lookup raised KeyError, the dynamic path failed too, and its
\* exception left the call
C7_Witness ==
    /\ env.registry = "KeyError"
    /\ printed
    /\ pc = "raised"
    /\ raised.at = "dynamic"
    /\ ~model.loaded

\* ------------------------------------------------------------- value-head initialization
\* Every process of the run makes the same call and reaches model.py:128 with
\* the same init_value_head and dschf; rank r is torch.distributed.get_rank().
\* Under ZeRO stage 3 the elements of value_head.weight are partitioned over the
\* ranks; otherwise every process stores all of them.

\* modifier_rank=0 of GatheredParameters(...), model.py:131
ModifierRank == 0

\* standard-normal samples a draw can produce for one element
ZSet == {-1, 1}

\* the elements of a weight before model.py:128 touches them
Stale == <<0, 0>>

Ranks == 0..(world.nprocs - 1)

Elements == 0..(world.hidden_size - 1)

\* the elements rank r stores when an n-element parameter is partitioned
PartSize == (world.hidden_size + world.nprocs - 1) \div world.nprocs

Part(r) == {i \in Elements : r * PartSize <= i /\ i < (r + 1) * PartSize}

Owner(i) == CHOOSE r \in Ranks : i \in Part(r)

Restrict(f, S) == [i \in S |-> f[i]]

\* std of model.py:133 and model.py:135: 1 / (config.hidden_size + 1)
NormalStdNoPlusOne(hidden_size) == Reduce(1, hidden_size)
NormalStd(hidden_size) == Reduce(1, hidden_size + 1)

\* one element of tensor.normal_(mean, std) for the standard-normal sample z
Sample(m, s, z) == Reduce(m[1] * s[2] + z * s[1] * m[2], m[2] * s[2])

\* the tensors weight.data.normal_(mean=0.0, std=s) can leave
NormalDraws(m, s) == [Elements -> {Sample(m, s, z) : z \in ZSet}]

DrawEntry(s, out) == [mean |-> ToRat(0), std |-> s, out |-> out]

\* torch.distributed.get_rank() == 0, model.py:132
IsModifierAnyRank(r) == TRUE
IsModifier(r) == r = 0

Path == InitPath(world.init_value_head, Dschf(world.ds_stage))

\* init_value_head is False: model.py:128 skips the block
SkipInit(r) ==
    /\ ppc[r] = "start"
    /\ Path = "skipped"
    /\ ppc' = [ppc EXCEPT ![r] = "done"]
    /\ UNCHANGED <<world, weight, gathered, contrib, bcast, draws, inits, objVars, buildVars>>

\* model.py:135: the process draws its own weight
PlainInit(r) ==
    /\ ppc[r] = "start"
    /\ Path = "plain"
    /\ \E out \in NormalDraws(ToRat(0), NormalStd(world.hidden_size)) :
          /\ weight' = [weight EXCEPT ![r] = out]
          /\ draws' = [draws EXCEPT
                          ![r] = Append(@, DrawEntry(NormalStd(world.hidden_size), out))]
    /\ inits' = [inits EXCEPT ![r] = @ + 1]
    /\ ppc' = [ppc EXCEPT ![r] = "done"]
    /\ UNCHANGED <<world, gathered, contrib, bcast, objVars, buildVars>>

\* model.py:131, GatheredParameters.__enter__: the process joins the all-gather
\* with the partition it stores
GatherEnter(r) ==
    /\ ppc[r] = "start"
    /\ Path = "zero3"
    /\ contrib' = [contrib EXCEPT ![r] = weight[r]]
    /\ ppc' = [ppc EXCEPT ![r] = "gathering"]
    /\ UNCHANGED <<world, weight, gathered, bcast, draws, inits, objVars, buildVars>>

\* the all-gather completes for a process once every process has joined it
GatherComplete(r) ==
    /\ ppc[r] = "gathering"
    /\ \A q \in Ranks : ppc[q] # "start"
    /\ gathered' = [gathered EXCEPT ![r] = [i \in Elements |-> contrib[Owner(i)][i]]]
    /\ ppc' = [ppc EXCEPT ![r] = "body"]
    /\ UNCHANGED <<world, weight, contrib, bcast, draws, inits, objVars, buildVars>>

\* model.py:132-133: the body of the with statement
GatherBody(r) ==
    /\ ppc[r] = "body"
    /\ IF IsModifier(r)
       THEN \E out \in NormalDraws(ToRat(0), NormalStd(world.hidden_size)) :
               /\ gathered' = [gathered EXCEPT ![r] = out]
               /\ draws' = [draws EXCEPT
                               ![r] = Append(@, DrawEntry(NormalStd(world.hidden_size), out))]
       ELSE UNCHANGED <<gathered, draws>>
    /\ ppc' = [ppc EXCEPT ![r] = "exit"]
    /\ UNCHANGED <<world, weight, contrib, bcast, inits, objVars, buildVars>>

\* GatheredParameters.__exit__ with modifier_rank=0: the modifier rank broadcasts
\* the full weight, every process takes its partition of it and frees the rest
GatherExit(r) ==
    /\ ppc[r] = "exit"
    /\ IF r = ModifierRank
       THEN /\ bcast' = gathered[r]
            /\ weight' = [weight EXCEPT ![r] = Restrict(gathered[r], Part(r))]
       ELSE /\ bcast # None
            /\ bcast' = bcast
            /\ weight' = [weight EXCEPT ![r] = Restrict(bcast, Part(r))]
    /\ gathered' = [gathered EXCEPT ![r] = None]
    /\ inits' = [inits EXCEPT ![r] = @ + 1]
    /\ ppc' = [ppc EXCEPT ![r] = "done"]
    /\ UNCHANGED <<world, contrib, draws, objVars, buildVars>>

InitDist ==
    /\ world \in [nprocs : 1..MaxProcs, hidden_size : 1..MaxHidden,
                  init_value_head : BOOLEAN, ds_stage : DsStages]
    /\ ppc = [r \in Ranks |-> "start"]
    /\ weight = [r \in Ranks |->
                    IF Dschf(world.ds_stage) # "None"
                    THEN [i \in Part(r) |-> Stale]
                    ELSE [i \in Elements |-> Stale]]
    /\ gathered = [r \in Ranks |-> None]
    /\ contrib = [r \in Ranks |-> None]
    /\ bcast = None
    /\ draws = [r \in Ranks |-> <<>>]
    /\ inits = [r \in Ranks |-> 0]
    /\ IdleObject
    /\ IdleBuild

NextDist ==
    \/ \E r \in Ranks : SkipInit(r)
    \/ \E r \in Ranks : PlainInit(r)
    \/ \E r \in Ranks : GatherEnter(r)
    \/ \E r \in Ranks : GatherComplete(r)
    \/ \E r \in Ranks : GatherBody(r)
    \/ \E r \in Ranks : GatherExit(r)

\* The processes of one run at model.py:128-135.
SpecInit == InitDist /\ [][NextDist]_vars

\* ------------------------------------------------------------- properties of the initialization
AllDone == \A r \in Ranks : ppc[r] = "done"

\* C8: with init_value_head set, every process's stored elements are
\* initialized exactly once, sharded or not. Under ZeRO stage 3 only rank 0
\* draws, and it draws once, after every process has entered the gather; a
\* process that has left the gather stores its partition of that one draw; and
\* no process is left waiting.
C8_InitializedOnce ==
    /\ \A r \in Ranks : inits[r] <= 1 /\ Len(draws[r]) <= 1
    /\ \A r \in Ranks : (ppc[r] = "done" /\ world.init_value_head) => inits[r] = 1
    /\ Path = "zero3" =>
          /\ \A r \in Ranks : r # 0 => draws[r] = <<>>
          /\ draws[0] # <<>> => \A q \in Ranks : ppc[q] # "start"
          /\ \A r \in Ranks :
                ppc[r] = "done" =>
                    /\ Len(draws[0]) = 1
                    /\ DOMAIN weight[r] = Part(r)
                    /\ \A i \in Part(r) : weight[r][i] = draws[0][1].out[i]
    /\ Path = "plain" =>
          \A r \in Ranks :
              ppc[r] = "done" => Len(draws[r]) = 1 /\ weight[r] = draws[r][1].out
    /\ AllDone \/ ENABLED NextDist

\* two processes under ZeRO stage 3, each storing one element of the weight,
\* have both left the gather
C8_Witness ==
    /\ Path = "zero3"
    /\ world.nprocs = 2
    /\ world.hidden_size = 2
    /\ AllDone
    /\ Len(draws[0]) = 1
    /\ weight[1] = Restrict(draws[0][1].out, {1})

\* C9 as claimed: every draw is made with mean 0 and a standard deviation whose
\* square is 1 / (hidden_size + 1).
C9_StdInverseSqrt ==
    \A r \in Ranks : \A k \in 1..Len(draws[r]) :
        /\ draws[r][k].mean = ToRat(0)
        /\ draws[r][k].std[1] > 0
        /\ draws[r][k].std[1] * draws[r][k].std[1] * (world.hidden_size + 1)
               = draws[r][k].std[2] * draws[r][k].std[2]

\* C9 amended: every draw, on the sharded and on the non-sharded path, is made
\* with mean 0 and standard deviation 1 / (hidden_size + 1), and every element
\* drawn is a sample scaled by that deviation.
C9_StdInverse ==
    \A r \in Ranks : \A k \in 1..Len(draws[r]) :
        /\ draws[r][k].mean = ToRat(0)
        /\ draws[r][k].std[1] > 0
        /\ draws[r][k].std[1] * (world.hidden_size + 1) = draws[r][k].std[2]
        /\ \A i \in Elements :
              \E z \in ZSet :
                  draws[r][k].out[i][1] * (world.hidden_size + 1)
                      = z * draws[r][k].out[i][2]

\* rank 0 has drawn a two-element weight inside the gather
C9_Witness ==
    /\ Path = "zero3"
    /\ world.hidden_size = 2
    /\ Len(draws[0]) = 1
    /\ draws[0][1].std = <<1, 3>>

====
